---- MODULE Spec2Model ----
(***************************************************************************)
(* Leave approval -> attendance derivation pipeline of the IQONIK HRMS     *)
(* backend (backend/index.js over db/schema.sql).                          *)
(*                                                                         *)
(* The relational store is modelled as its committed tables plus, for each *)
(* in-flight decide transaction, the writes and row locks that transaction *)
(* holds (PostgreSQL READ COMMITTED: uncommitted writes are invisible to   *)
(* other transactions, row locks are held until COMMIT or ROLLBACK).       *)
(* Calendar dates are small integers, one per day.                         *)
(***************************************************************************)
EXTENDS Integers, Sequences, FiniteSets, TLC

\* ------------------------------------------------------------------ bounds
MaxLeaves == 2
MaxCalls == 2
Calls == 1..MaxCalls
LeaveIds == 1..MaxLeaves

\* leaves.id is a UUID column: the ids above stand for well-formed uuids,
\* MalformedId for a path segment that is not one
MalformedId == -1
IsUuid(id) == id \in Nat

\* first day of the current year: DATE_TRUNC('year', NOW())
YearStart == 1

\* ------------------------------------------------------------- the actors
NULL == "NULL"
NoAuth == "NoAuth"
Users == {"u1", "u2", "m1", "m2", "h1"}

\* employees table: u1 is an active employee, u2 has a profile that is not
\* active yet, m1 (the manager of both) and m2 have no employee row
employees ==
  [e1 |-> [user_id |-> "u1", manager_id |-> "m1", status |-> "active"],
   e2 |-> [user_id |-> "u2", manager_id |-> "m1", status |-> "pre_join"]]

\* permissions claim of each user's token; h1 holds the HR token
permissions ==
  [u \in Users |->
     IF u = "m1" THEN {"LEAVE_APPROVE", "ATTENDANCE_APPROVE"}
     ELSE IF u = "m2" THEN {"LEAVE_APPROVE"}
     ELSE IF u = "h1" THEN {"HR_VIEW", "DOCS_REVIEW", "HR_MANAGE"}
     ELSE {}]

AllFields == {"type", "start_date", "end_date"}

\* date ranges <<start_date, end_date>> employees ask for: date 0 is the
\* last day of the previous year, date 1 already has a punch record
DateRanges == {<<1, 2>>, <<2, 2>>, <<2, 1>>, <<0, 1>>}

\* request bodies of POST /api/leave/apply: <<user, fields, type, start, end>>
ApplyInputs ==
  {<<"u1", AllFields, "CL", r[1], r[2]>> : r \in DateRanges}
  \cup {<<"u1", AllFields, "XX", 1, 2>>,
        <<"u2", AllFields, "CL", 1, 1>>,
        <<"m1", AllFields, "CL", 1, 1>>,
        <<"u1", {"type", "start_date"}, "CL", 1, 1>>,
        <<NoAuth, AllFields, "CL", 1, 1>>}

\* requests of PUT /api/leave/:id/status: <<user, id, status>>
DecideInputs ==
  {<<"m1", id, st>> : id \in LeaveIds, st \in {"approved", "rejected"}}
  \cup {<<"m2", 1, "approved">>}
  \cup {<<"m1", 1, "Approved">>,
        <<"m1", 1, "cancelled">>,
        <<"m1", 1, "">>,
        <<"m1", MalformedId, "approved">>,
        <<"u1", 1, "approved">>,
        <<NoAuth, 1, "approved">>}

ALLOC == [CL |-> 12, SL |-> 8, PL |-> 12]

VARIABLES
  leaves,           \* leaves table (committed); the row's id is its index
  attendance_days,  \* attendance_days table (committed), a set of rows
  pc,               \* position of each decide call in its handler
  req,              \* [user, id, s] of each decide call
  leave,            \* rows[0] held by each decide call
  cur,              \* next date of generate_series the INSERT has to write
  txLeave,          \* uncommitted UPDATE leaves of each call's transaction
  txAtt,            \* uncommitted attendance rows of each call's transaction
  rowLock,          \* leaves row lock: request id -> holding call or 0
  res,              \* response each decide call has sent
  applyRes,         \* response of the last POST /api/leave/apply
  hrRes,            \* response of the last call of an /api/hr endpoint
  hrCalls,          \* number of /api/hr calls answered so far
  ingest,           \* the last punch the attendance ingestion has upserted
  client,           \* pool clients each decide call has acquired and released
  readRes           \* response of the last call of a read endpoint

vars == <<leaves, attendance_days, pc, req, leave, cur, txLeave,
          txAtt, rowLock, res, applyRes, hrRes, hrCalls, ingest, client,
          readRes>>

\* what the leave endpoints leave alone
hrVars == <<hrRes, hrCalls, ingest, readRes>>

NoRes == [code |-> 0, error |-> "", status |-> "", request_id |-> 0]
NoReq == [user |-> NULL, id |-> 0, s |-> ""]
NoRow == [employee_id |-> NULL, start_date |-> 0, end_date |-> 0]
NoWrite == [status |-> NULL, approver_id |-> NULL]
NoIngest == [calls |-> 0, employee_id |-> NULL, date |-> 0, status |-> ""]
NoMonth == <<>>
NoClient == [acquired |-> 0, released |-> 0]
NoReadRes == [endpoint |-> "", user |-> NULL, code |-> 0, error |-> "",
              rows |-> <<>>]
NoHrRes ==
  [endpoint |-> "", code |-> 0, error |-> "", month |-> NoMonth, rows |-> {}]

\* ----------------------------------------------------------------- helpers
\* res.status(code).json({ error })
ErrorRes(code, msg) ==
  [code |-> code, error |-> msg, status |-> "", request_id |-> 0]

\* String(status || '').toLowerCase()
ToLowerCase(status) == IF status = "Approved" THEN "approved" ELSE status

\* (SELECT id FROM employees WHERE user_id=$1)
EmployeeOfUser(u) ==
  IF \E e \in DOMAIN employees : employees[e].user_id = u
  THEN CHOOSE e \in DOMAIN employees : employees[e].user_id = u
  ELSE NULL

\* generate_series($2::date, $3::date, interval '1 day')
generate_seriesExclusive(a, b) == a..(b - 1)
generate_series(a, b) == a..b

SameKey(r1, r2) == r1.employee_id = r2.employee_id /\ r1.date = r2.date

LeaveRow(e, d) ==
  [employee_id |-> e, date |-> d, status |-> "leave", source |-> "web",
   geofence_ok |-> TRUE]

\* INSERT ... ON CONFLICT (employee_id, date) DO UPDATE SET ...
UpsertNoConflict(table, row) == table \cup {row}
UpsertDoNothing(table, row) ==
  IF \E r \in table : SameKey(r, row) THEN table ELSE table \cup {row}
UpsertToggle(table, row) ==
  IF \E r \in table : SameKey(r, row)
  THEN {r \in table : ~SameKey(r, row)}
  ELSE table \cup {row}
Upsert(table, row) == {r \in table : ~SameKey(r, row)} \cup {row}

RECURSIVE UpsertAll(_, _)
UpsertAll(table, rows) ==
  IF rows = {} THEN table
  ELSE LET row == CHOOSE r \in rows : TRUE
       IN UpsertAll(Upsert(table, row), rows \ {row})

\* ------------------------------------------------------------------- Init
InitialPunches ==
  {[employee_id |-> "e1", date |-> 1, status |-> "present",
    source |-> "gps", geofence_ok |-> FALSE]}

Init ==
  /\ leaves = <<>>
  /\ attendance_days = InitialPunches
  /\ pc = [t \in Calls |-> "idle"]
  /\ req = [t \in Calls |-> NoReq]
  /\ leave = [t \in Calls |-> NoRow]
  /\ cur = [t \in Calls |-> 0]
  /\ txLeave = [t \in Calls |-> NoWrite]
  /\ txAtt = [t \in Calls |-> {}]
  /\ rowLock = [r \in LeaveIds |-> 0]
  /\ res = [t \in Calls |-> NoRes]
  /\ applyRes = NoRes
  /\ hrRes = NoHrRes
  /\ hrCalls = 0
  /\ ingest = NoIngest
  /\ client = [t \in Calls |-> NoClient]
  /\ readRes = NoReadRes

\* ------------------------------------------------- POST /api/leave/apply
\* INSERT INTO leaves (...) VALUES ((SELECT id FROM employees ...), ...,
\* 'pending'): the row the statement stores
NewLeaveApproved(user, type, start_date, end_date) ==
  [employee_id |-> EmployeeOfUser(user), type |-> type,
   start_date |-> start_date, end_date |-> end_date,
   status |-> "approved", approver_id |-> NULL]
NewLeave(user, type, start_date, end_date) ==
  [employee_id |-> EmployeeOfUser(user), type |-> type,
   start_date |-> start_date, end_date |-> end_date,
   status |-> "pending", approver_id |-> NULL]

\* fields is the set of fields the request body carries
Apply(user, fields, type, start_date, end_date) ==
  /\ UNCHANGED hrVars
  /\ UNCHANGED client
  /\ Len(leaves) < MaxLeaves
  /\ UNCHANGED <<attendance_days, pc, req, leave, cur, txLeave,
                 txAtt, rowLock, res>>
  /\ IF user = NoAuth
     THEN /\ applyRes' = ErrorRes(401, "Missing Authorization")
          /\ UNCHANGED leaves
     ELSE IF AllFields \ fields # {}
     THEN /\ applyRes' = ErrorRes(400, "type, start_date, end_date required")
          /\ UNCHANGED leaves
     ELSE \/ /\ EmployeeOfUser(user) # NULL
             /\ leaves' = Append(leaves,
                                 NewLeave(user, type, start_date, end_date))
             /\ applyRes' = [code |-> 200, error |-> "",
                             status |-> "pending",
                             request_id |-> Len(leaves) + 1]
          \/ \* NOT NULL violation on employee_id, or the store is down
             /\ applyRes' = ErrorRes(500, "Failed to apply leave")
             /\ UNCHANGED leaves

\* ---------------------------------------------- PUT /api/leave/:id/status
NotFound == ErrorRes(400, "Leave not found or already processed")

\* res.json({ ok: true, status: s })
OkRes(s) == [code |-> 200, error |-> "", status |-> s, request_id |-> 0]

\* attendance keys on which another open transaction holds a row lock
KeyLockedByOther(t, e, d) ==
  \E o \in Calls \ {t} :
    \E r \in txAtt[o] : r.employee_id = e /\ r.date = d

\* the leaves row is locked by another open transaction
RowLockedByOtherNoLock(t, r) == FALSE
RowLockedByOther(t, r) == rowLock[r] \notin {0, t}

\* WHERE id=$1 AND status='pending'
MatchesAnyStatus(id) == id \in 1..Len(leaves)
MatchesPending(id) == id \in 1..Len(leaves) /\ leaves[id].status = "pending"

\* what COMMIT and ROLLBACK do to the locks of transaction t
Unlock(t) == [r \in LeaveIds |-> IF rowLock[r] = t THEN 0 ELSE rowLock[r]]

\* ['approved','rejected'].includes(status); the first definition accepts
\* every decision the body carries
ValidDecisionAny(s) == s # ""
ValidDecision(s) == s \in {"approved", "rejected"}

\* authRequired, requirePermission('LEAVE_APPROVE'), the status check and
\* the call of pool.connect()
DecideStart(t, user, id, status) ==
  /\ UNCHANGED hrVars
  /\ UNCHANGED client
  /\ pc[t] = "idle"
  /\ \A o \in Calls : o < t => pc[o] # "idle"
  /\ req' = [req EXCEPT ![t] =
               [user |-> user, id |-> id, s |-> ToLowerCase(status)]]
  /\ UNCHANGED <<leaves, attendance_days, leave, cur, txLeave,
                 txAtt, rowLock, applyRes>>
  /\ IF user = NoAuth
     THEN /\ res' = [res EXCEPT ![t] = ErrorRes(401, "Missing Authorization")]
          /\ pc' = [pc EXCEPT ![t] = "done"]
     ELSE IF "LEAVE_APPROVE" \notin permissions[user]
     THEN /\ res' = [res EXCEPT ![t] = ErrorRes(403, "Forbidden")]
          /\ pc' = [pc EXCEPT ![t] = "done"]
     ELSE IF ~ValidDecision(ToLowerCase(status))
     THEN /\ res' = [res EXCEPT ![t] =
                       ErrorRes(400, "status must be approved or rejected")]
          /\ pc' = [pc EXCEPT ![t] = "done"]
     ELSE /\ pc' = [pc EXCEPT ![t] = "connect"]
          /\ UNCHANGED res

\* const client = await pool.connect(): a rejection here is outside the try
Connect(t) ==
  /\ UNCHANGED hrVars
  /\ pc[t] = "connect"
  /\ \/ /\ pc' = [pc EXCEPT ![t] = "begin"]
        /\ client' = [client EXCEPT ![t].acquired = @ + 1]
     \/ /\ pc' = [pc EXCEPT ![t] = "done"]
        /\ UNCHANGED client
  /\ UNCHANGED <<leaves, attendance_days, req, leave, cur, txLeave,
                 txAtt, rowLock, res, applyRes>>

\* await client.query('BEGIN')
Begin(t) ==
  /\ UNCHANGED hrVars
  /\ UNCHANGED client
  /\ pc[t] = "begin"
  /\ \/ pc' = [pc EXCEPT ![t] = "select"]
     \/ pc' = [pc EXCEPT ![t] = "catch"]
  /\ UNCHANGED <<leaves, attendance_days, req, leave, cur, txLeave,
                 txAtt, rowLock, res, applyRes>>

\* the SELECT returns no row: the handler goes on to its ROLLBACK
SelectNoRows(t) ==
  /\ IsUuid(req[t].id)
  /\ ~MatchesPending(req[t].id)
  /\ pc' = [pc EXCEPT ![t] = "rollback_nf"]
  /\ UNCHANGED <<leave, rowLock>>

\* SELECT * FROM leaves WHERE id=$1 AND status='pending' FOR UPDATE; the
\* statement throws when $1 is not a uuid or when the store fails
SelectForUpdate(t) ==
  /\ UNCHANGED hrVars
  /\ UNCHANGED client
  /\ pc[t] = "select"
  /\ UNCHANGED <<leaves, attendance_days, req, cur, txLeave,
                 txAtt, res, applyRes>>
  /\ \/ /\ IsUuid(req[t].id)
        /\ MatchesPending(req[t].id)
        /\ ~RowLockedByOther(t, req[t].id)
        /\ rowLock' = [rowLock EXCEPT ![req[t].id] = t]
        /\ leave' = [leave EXCEPT ![t] =
                       [employee_id |-> leaves[req[t].id].employee_id,
                        start_date |-> leaves[req[t].id].start_date,
                        end_date |-> leaves[req[t].id].end_date]]
        /\ pc' = [pc EXCEPT ![t] = "update"]
     \/ SelectNoRows(t)
     \/ /\ pc' = [pc EXCEPT ![t] = "catch"]
        /\ UNCHANGED <<leave, rowLock>>

\* finally { client.release() }; in the first definition the client is
\* not given back
NoRelease(t) == UNCHANGED client
Release(t) == client' = [client EXCEPT ![t].released = @ + 1]

\* if (!rows.length) { await client.query('ROLLBACK'); return res.status(400) }
\* and the finally block
RollbackNotFound(t) ==
  /\ UNCHANGED hrVars
  /\ pc[t] = "rollback_nf"
  /\ UNCHANGED <<leaves, attendance_days, req, leave, cur, txLeave,
                 txAtt, rowLock, applyRes>>
  /\ \/ /\ res' = [res EXCEPT ![t] = NotFound]
        /\ pc' = [pc EXCEPT ![t] = "done"]
        /\ Release(t)
     \/ /\ pc' = [pc EXCEPT ![t] = "catch"]
        /\ UNCHANGED <<res, client>>

\* the write of UPDATE leaves SET status=$1, approver_id=$2 WHERE id=$3:
\* through the transaction's client it stays uncommitted
AutoCommitUpdate(t) ==
  /\ leaves' = [leaves EXCEPT ![req[t].id].status = req[t].s,
                              ![req[t].id].approver_id = req[t].user]
  /\ UNCHANGED txLeave
ClientUpdateNoApprover(t) ==
  /\ txLeave' = [txLeave EXCEPT ![t] =
                   [status |-> req[t].s, approver_id |-> NULL]]
  /\ UNCHANGED leaves
ClientUpdate(t) ==
  /\ txLeave' = [txLeave EXCEPT ![t] =
                   [status |-> req[t].s, approver_id |-> req[t].user]]
  /\ UNCHANGED leaves

UpdateLeave(t) ==
  /\ UNCHANGED hrVars
  /\ UNCHANGED client
  /\ pc[t] = "update"
  /\ UNCHANGED <<attendance_days, req, leave, txAtt, rowLock, res,
                 applyRes>>
  /\ \/ /\ ~RowLockedByOther(t, req[t].id)
        /\ ClientUpdate(t)
        /\ IF req[t].s = "approved"
           THEN /\ pc' = [pc EXCEPT ![t] = "upsert"]
                /\ cur' = [cur EXCEPT ![t] = leave[t].start_date]
           ELSE /\ pc' = [pc EXCEPT ![t] = "commit"]
                /\ UNCHANGED cur
     \/ /\ pc' = [pc EXCEPT ![t] = "catch"]
        /\ UNCHANGED <<leaves, txLeave, cur>>

\* dates of the series the INSERT ... SELECT has still to write
Remaining(t) ==
  {d \in generate_series(leave[t].start_date, leave[t].end_date) :
     d >= cur[t]}

\* the series comes in ascending order in every transaction; in the first
\* definition the calls with an even number write theirs from the end
NextDateByCall(t) ==
  IF t % 2 = 0
  THEN leave[t].start_date + leave[t].end_date - cur[t]
  ELSE cur[t]
NextDate(t) == CHOOSE d \in Remaining(t) : \A o \in Remaining(t) : d <= o

\* the write of one row of the INSERT INTO attendance_days: through the
\* transaction's client it stays uncommitted
AutoCommitUpsert(t, row) ==
  /\ txAtt' = [txAtt EXCEPT ![t] = Upsert(@, row)]
  /\ attendance_days' = Upsert(attendance_days, row)

ClientUpsert(t, row) ==
  /\ txAtt' = [txAtt EXCEPT ![t] = Upsert(@, row)]
  /\ UNCHANGED attendance_days

\* INSERT INTO attendance_days ... SELECT ... FROM generate_series(...)
\* ON CONFLICT (employee_id, date) DO UPDATE ..., one row of the series at a
\* time; a row whose key another open transaction has written waits for it
UpsertAttendance(t) ==
  /\ UNCHANGED hrVars
  /\ UNCHANGED client
  /\ pc[t] = "upsert"
  /\ UNCHANGED <<leaves, req, leave, txLeave, rowLock, res, applyRes>>
  /\ \/ /\ Remaining(t) # {}
        /\ ~KeyLockedByOther(t, leave[t].employee_id, NextDate(t))
        /\ ClientUpsert(t, LeaveRow(leave[t].employee_id, NextDate(t)))
        /\ cur' = [cur EXCEPT ![t] = @ + 1]
        /\ UNCHANGED pc
     \/ /\ Remaining(t) = {}
        /\ pc' = [pc EXCEPT ![t] = "commit"]
        /\ UNCHANGED <<attendance_days, txAtt, cur>>
     \/ /\ pc' = [pc EXCEPT ![t] = "catch"]
        /\ UNCHANGED <<attendance_days, txAtt, cur>>

\* the leaves table once transaction t's UPDATE is committed
CommittedLeaves(t) ==
  IF txLeave[t] = NoWrite THEN leaves
  ELSE [leaves EXCEPT ![req[t].id].status = txLeave[t].status,
                      ![req[t].id].approver_id = txLeave[t].approver_id]

\* await client.query('COMMIT'); res.json({ ok: true, status: s }); and
\* finally { client.release() }, which runs before the handler awaits again
Commit(t) ==
  /\ UNCHANGED hrVars
  /\ pc[t] = "commit"
  /\ UNCHANGED <<req, applyRes>>
  /\ \/ /\ leaves' = CommittedLeaves(t)
        /\ leave' = [leave EXCEPT ![t] = NoRow]
        /\ cur' = [cur EXCEPT ![t] = 0]
        /\ attendance_days' = UpsertAll(attendance_days, txAtt[t])
        /\ txLeave' = [txLeave EXCEPT ![t] = NoWrite]
        /\ txAtt' = [txAtt EXCEPT ![t] = {}]
        /\ rowLock' = Unlock(t)
        /\ res' = [res EXCEPT ![t] = OkRes(req[t].s)]
        /\ pc' = [pc EXCEPT ![t] = "done"]
        /\ Release(t)
     \/ /\ pc' = [pc EXCEPT ![t] = "catch"]
        /\ UNCHANGED <<leaves, attendance_days, leave, cur, txLeave, txAtt,
                       rowLock, res, client>>

\* catch (e) { await client.query('ROLLBACK'); res.status(500).json(...) }
\* A ROLLBACK that throws leaves the handler without a response; the
\* session is gone and the server aborts its transaction. The finally block
\* runs on both ways out.
Catch(t) ==
  /\ UNCHANGED hrVars
  /\ pc[t] = "catch"
  /\ UNCHANGED <<leaves, attendance_days, req, applyRes>>
  /\ leave' = [leave EXCEPT ![t] = NoRow]
  /\ cur' = [cur EXCEPT ![t] = 0]
  /\ txLeave' = [txLeave EXCEPT ![t] = NoWrite]
  /\ txAtt' = [txAtt EXCEPT ![t] = {}]
  /\ rowLock' = Unlock(t)
  /\ pc' = [pc EXCEPT ![t] = "done"]
  /\ Release(t)
  /\ \/ res' = [res EXCEPT ![t] = ErrorRes(500, "Failed to update leave")]
     \/ UNCHANGED res

\* ------------------------------------------------ GET /api/leave/balance
\* GREATEST(1, DATE_PART('day', (end_date - start_date)) + 1)
Greatest(a, b) == IF a >= b THEN a ELSE b
Days(l) == Greatest(1, (l.end_date - l.start_date) + 1)

\* ids of the rows the query sums for one employee and type: the second
\* definition is the query's
ApprovedThisYearNotRejected(e, type) ==
  {i \in 1..Len(leaves) :
     /\ leaves[i].employee_id = e
     /\ leaves[i].status # "rejected"
     /\ leaves[i].start_date >= YearStart
     /\ leaves[i].type = type}

ApprovedThisYear(e, type) ==
  {i \in 1..Len(leaves) :
     /\ leaves[i].employee_id = e
     /\ leaves[i].status = "approved"
     /\ leaves[i].start_date >= YearStart
     /\ leaves[i].type = type}

RECURSIVE SumDays(_)
SumDays(ids) ==
  IF ids = {} THEN 0
  ELSE LET i == CHOOSE x \in ids : TRUE
       IN Days(leaves[i]) + SumDays(ids \ {i})

\* used[t] || 0
Used(user, type) == SumDays(ApprovedThisYear(EmployeeOfUser(user), type))

\* the rows of the response, one per type of ALLOC
Balance(user) ==
  [type \in DOMAIN ALLOC |->
     [allocated |-> ALLOC[type], used |-> Used(user, type),
      remaining |-> ALLOC[type] - Used(user, type)]]

\* ------------------------------------------------------------------- Next
Next ==
  \/ \E in \in ApplyInputs : Apply(in[1], in[2], in[3], in[4], in[5])
  \/ \E t \in Calls, in \in DecideInputs :
       DecideStart(t, in[1], in[2], in[3])
  \/ \E t \in Calls : Connect(t)
  \/ \E t \in Calls : Begin(t)
  \/ \E t \in Calls : SelectForUpdate(t)
  \/ \E t \in Calls : RollbackNotFound(t)
  \/ \E t \in Calls : UpdateLeave(t)
  \/ \E t \in Calls : UpsertAttendance(t)
  \/ \E t \in Calls : Commit(t)
  \/ \E t \in Calls : Catch(t)

Spec == Init /\ [][Next]_vars

\* ------------------------------------------------ GET /api/leave/pending
\* ids of the rows the manager's pending list returns
Pending(user) ==
  {i \in 1..Len(leaves) :
     /\ employees[leaves[i].employee_id].manager_id = user
     /\ leaves[i].status = "pending"}

\* --------------------------------------------------- the calendar, months
\* days of the months of a year that is not a leap year
MonthDays == <<31, 28, 31, 30, 31, 30, 31, 31, 30, 31, 30, 31>>

RECURSIVE DaysBefore(_)
DaysBefore(mi) == IF mi = 0 THEN 0 ELSE MonthDays[mi] + DaysBefore(mi - 1)

\* Date.UTC(y, mi, 1) as a day number: y counts the years from the current
\* one, mi is the zero-based month, and month 12 is January of the year after
DateUTC(y, mi) ==
  IF mi >= 12 THEN YearStart + 365 * (y + 1) + DaysBefore(mi - 12)
  ELSE YearStart + 365 * y + DaysBefore(mi)

\* start = Date.UTC(y, m - 1, 1), end = Date.UTC(y, m, 1), exclusive
toMonthBounds(yyyyMm) ==
  [start |-> DateUTC(yyyyMm[1], yyyyMm[2] - 1),
   end |-> DateUTC(yyyyMm[1], yyyyMm[2])]

\* the months asked for: December of last year, January and February
Months == {<<0 - 1, 12>>, <<0, 1>>, <<0, 2>>}

\* ------------------------------------------------- ctc_structures table
\* e1's only record takes effect in mid January; e2 has one from last
\* November and one from January 1st
CtcRow(e, from, basic, hra, special) ==
  [employee_id |-> e, effective_from |-> from, basic |-> basic, hra |-> hra,
   special |-> special]

ctc_structures ==
  {CtcRow("e1", 15, 26000, 16000, 10000),
   CtcRow("e2", 0 - 60, 10007, 6000, 4000),
   CtcRow("e2", 1, 15000, 10000, 5000)}

\* --------------------------------------- attendance_days as punches fill it
PunchRow(e, d, status) ==
  [employee_id |-> e, date |-> d, status |-> status, source |-> "gps",
   geofence_ok |-> FALSE]

\* e1: the last day of last year, three days of January (one worked from
\* home, one absent) and February 1st.  e2: 15 days present in December,
\* 24 present and 2 on leave in January, 27 present in February.
PayrollPunches ==
  InitialPunches
  \cup {PunchRow("e1", 0, "present"), PunchRow("e1", 3, "wfh"),
        PunchRow("e1", 4, "absent"), PunchRow("e1", 32, "present")}
  \cup {PunchRow("e2", d, "present") : d \in (0 - 30)..(0 - 16)}
  \cup {PunchRow("e2", d, "present") : d \in 1..24}
  \cup {PunchRow("e2", d, "leave") : d \in 25..26}
  \cup {PunchRow("e2", d, "present") : d \in 32..58}

\* ------------------------------------------- JavaScript Number arithmetic
\* Number is an IEEE 754 double: 53 significant bits, results rounded to
\* the nearest double, ties to even.  A non-negative double is modelled as
\* [bits, exp]: the binary digits of its significand, most significant
\* first, and the power of two that scales them (value = bits * 2^exp).
Precision == 53
\* binary places of a quotient that are worked out before it is rounded
GuardBits == 64
\* a significand is multiplied in pieces of LimbBits digits
LimbBits == 10

RECURSIVE ToBits(_)
ToBits(n) == IF n = 0 THEN <<>> ELSE Append(ToBits(n \div 2), n % 2)

RECURSIVE FromBits(_)
FromBits(b) ==
  IF b = <<>> THEN 0
  ELSE 2 * FromBits(SubSeq(b, 1, Len(b) - 1)) + b[Len(b)]

Zeros(k) == [i \in 1..k |-> 0]

RECURSIVE Strip(_)
Strip(b) == IF b # <<>> /\ b[1] = 0 THEN Strip(Tail(b)) ELSE b

\* b + 1
Inc(b) ==
  IF \A i \in 1..Len(b) : b[i] = 1 THEN <<1>> \o Zeros(Len(b))
  ELSE LET p == CHOOSE i \in 1..Len(b) :
                  b[i] = 0 /\ \A j \in (i + 1)..Len(b) : b[j] = 1
       IN [i \in 1..Len(b) |-> IF i < p THEN b[i] ELSE IF i = p THEN 1 ELSE 0]

\* 2^j modulo d
RECURSIVE Pow2Mod(_, _)
Pow2Mod(j, d) ==
  IF j = 0 THEN 1 % d
  ELSE IF j % 2 = 0 THEN (Pow2Mod(j \div 2, d) * Pow2Mod(j \div 2, d)) % d
  ELSE (2 * Pow2Mod(j - 1, d)) % d

\* the remainder of long division of n by d after j binary places
Remainder(n, d, j) == ((n % d) * Pow2Mod(j, d)) % d

\* the nearest double to bits * 2^exp (plus a non-zero tail below the last
\* digit when sticky): round to nearest, ties to even
RoundToDouble(bits, exp, sticky) ==
  IF Len(bits) <= Precision THEN [bits |-> bits, exp |-> exp]
  ELSE LET keep == SubSeq(bits, 1, Precision)
           up == /\ bits[Precision + 1] = 1
                 /\ \/ sticky
                    \/ \E i \in (Precision + 2)..Len(bits) : bits[i] = 1
                    \/ keep[Precision] = 1
       IN [bits |-> IF up THEN Inc(keep) ELSE keep,
           exp |-> exp + (Len(bits) - Precision)]

\* n / d in Number arithmetic, for whole numbers n >= 0 and d > 0: the
\* quotient to GuardBits binary places, then rounded
Divide(n, d) ==
  IF n = 0 THEN [bits |-> <<>>, exp |-> 0]
  ELSE RoundToDouble(
         Strip(ToBits(n \div d)
               \o [j \in 1..GuardBits |->
                     (2 * Remainder(n, d, j - 1)) \div d]),
         0 - GuardBits, Remainder(n, d, GuardBits) # 0)

\* the digits b in pieces of LimbBits digits, and back
ToLimbs(b) ==
  LET n == (Len(b) + LimbBits - 1) \div LimbBits
      padded == Zeros(n * LimbBits - Len(b)) \o b
  IN [i \in 1..n |->
        FromBits(SubSeq(padded, (i - 1) * LimbBits + 1, i * LimbBits))]

LimbsToBits(l) ==
  [i \in 1..(Len(l) * LimbBits) |->
     (l[(i - 1) \div LimbBits + 1]
        \div 2^(LimbBits - 1 - ((i - 1) % LimbBits))) % 2]

\* the pieces l times the whole number k, from piece i down: acc holds the
\* pieces done, carry what they carried over
RECURSIVE MulLimbs(_, _, _, _, _)
MulLimbs(l, k, i, acc, carry) ==
  IF i = 0 THEN ToBits(carry) \o LimbsToBits(acc)
  ELSE MulLimbs(l, k, i - 1, <<(l[i] * k + carry) % 2^LimbBits>> \o acc,
                (l[i] * k + carry) \div 2^LimbBits)

\* k * x in Number arithmetic, for a whole number k >= 0
Multiply(k, x) ==
  RoundToDouble(Strip(MulLimbs(ToLimbs(x.bits), k, Len(ToLimbs(x.bits)),
                               <<>>, 0)),
                x.exp, FALSE)

\* Math.round(x): the nearest integer, a tie goes up
MathRound(x) ==
  IF x.exp >= 0 THEN FromBits(x.bits \o Zeros(x.exp))
  ELSE LET whole == Len(x.bits) + x.exp
       IN (IF whole > 0 THEN FromBits(SubSeq(x.bits, 1, whole)) ELSE 0)
          + (IF whole >= 0 /\ x.bits[whole + 1] = 1 THEN 1 ELSE 0)

Max(a, b) == IF a >= b THEN a ELSE b

\* const WORKING_DAYS = 26
WORKING_DAYS == 26

\* Math.round(Number(r.base_salary) *
\*            (Math.max(0, presents + leaves) / WORKING_DAYS))
payable_salary(base, presents, onLeave) ==
  MathRound(Multiply(base, Divide(Max(0, presents + onLeave), WORKING_DAYS)))

\* -------------------------------------------- GET /api/hr/payroll-summary
\* month_att: the attendance rows the LEFT JOIN keeps for one employee
MonthRows(e, start, end) ==
  {a \in attendance_days :
     a.employee_id = e /\ a.date >= start /\ a.date < end}

\* SUM(CASE WHEN a.status = status THEN 1 ELSE 0 END)
CountStatus(rows, status) == Cardinality({a \in rows : a.status = status})

\* latest_ctc: WHERE c.effective_from <= $1::date
QualifyingAnyDate(e, start) ==
  {c \in ctc_structures : c.employee_id = e}

Qualifying(e, start) ==
  {c \in ctc_structures : c.employee_id = e /\ c.effective_from <= start}

\* DISTINCT ON (c.employee_id) ... ORDER BY c.employee_id,
\* c.effective_from DESC; COALESCE(l.base_salary, 0)
base_salary(e, start) ==
  IF Qualifying(e, start) = {} THEN 0
  ELSE LET c == CHOOSE x \in Qualifying(e, start) :
                  \A o \in Qualifying(e, start) :
                    o.effective_from <= x.effective_from
       IN c.basic + c.hra + c.special

\* the base salaries the table can give, the day counts a month can give,
\* and payable_salary of each pair, worked out once
BaseSalaries == {0} \cup {c.basic + c.hra + c.special : c \in ctc_structures}
Payable ==
  [base \in BaseSalaries, n \in 0..31 |-> payable_salary(base, n, 0)]

\* one row of the response; u.name is the user's id here
SummaryRow(e, month) ==
  LET b == toMonthBounds(month)
      rows == MonthRows(e, b.start, b.end)
  IN [employee |-> employees[e].user_id,
      base_salary |-> base_salary(e, b.start),
      presents |-> CountStatus(rows, "present"),
      leaves |-> CountStatus(rows, "leave"),
      absents |-> CountStatus(rows, "absent"),
      payable_salary |->
        Payable[base_salary(e, b.start),
                CountStatus(rows, "present") + CountStatus(rows, "leave")]]

\* the rows of the query, mapped: the order (ORDER BY u.name) is left out
PayrollRows(month) == {SummaryRow(e, month) : e \in DOMAIN employees}

\* const data = rows.map(...): computed from the tables on every call
dataCached(month) ==
  IF hrRes.endpoint = "payroll-summary" /\ hrRes.code = 200
     /\ hrRes.month = month
  THEN hrRes.rows
  ELSE PayrollRows(month)

data(month) == PayrollRows(month)

HrError(endpoint, code, msg) ==
  [endpoint |-> endpoint, code |-> code, error |-> msg, month |-> NoMonth,
   rows |-> {}]

\* calls of the /api/hr endpoints the model follows
MaxHrCalls == 2

\* <<user, month>> of the calls of GET /api/hr/payroll-summary and of
\* POST /api/hr/attendance/refresh
HrInputs ==
  {<<"h1", m>> : m \in Months}
  \cup {<<"h1", NoMonth>>, <<"m1", <<0, 1>>>>, <<NoAuth, <<0, 1>>>>}
RefreshInputs ==
  {<<"h1", <<0, 1>>>>, <<"h1", NoMonth>>, <<"u1", <<0, 1>>>>,
   <<NoAuth, <<0, 1>>>>}

\* <<user, id, status>> of the decide calls that run beside them
PayrollDecideInputs == {<<"m1", 1, "approved">>, <<"m1", 1, "rejected">>}

PayrollSummary(user, month) ==
  /\ hrCalls < MaxHrCalls
  /\ hrCalls' = hrCalls + 1
  /\ UNCHANGED <<leaves, attendance_days, pc, req, leave, cur, txLeave,
                 txAtt, rowLock, res, applyRes, ingest, client, readRes>>
  /\ IF user = NoAuth
     THEN hrRes' = HrError("payroll-summary", 401, "Missing Authorization")
     ELSE IF "HR_VIEW" \notin permissions[user]
     THEN hrRes' = HrError("payroll-summary", 403, "Forbidden")
     ELSE IF month = NoMonth
     THEN hrRes' = HrError("payroll-summary", 400,
                           "month (YYYY-MM) is required")
     ELSE \/ hrRes' = [endpoint |-> "payroll-summary", code |-> 200,
                       error |-> "", month |-> month, rows |-> data(month)]
          \/ hrRes' = HrError("payroll-summary", 500,
                              "Failed to compute payroll summary")

\* ---------------------------------------- POST /api/hr/attendance/refresh
\* res.json({ ok: true, message: `Recalculated for ${month}` })
AttendanceRefresh(user, month) ==
  /\ hrCalls < MaxHrCalls
  /\ hrCalls' = hrCalls + 1
  /\ UNCHANGED <<leaves, attendance_days, pc, req, leave, cur, txLeave,
                 txAtt, rowLock, res, applyRes, ingest, client, readRes>>
  /\ IF user = NoAuth
     THEN hrRes' = HrError("refresh", 401, "Missing Authorization")
     ELSE IF "HR_MANAGE" \notin permissions[user]
     THEN hrRes' = HrError("refresh", 403, "Forbidden")
     ELSE IF month = NoMonth
     THEN hrRes' = HrError("refresh", 400, "month (YYYY-MM) is required")
     ELSE hrRes' = [endpoint |-> "refresh", code |-> 200, error |-> "",
                    month |-> month, rows |-> {}]

\* ------------------------------- the payroll summary beside leave decisions
\* a request of e1 for January 1st and 2nd is pending, the punches of two
\* months are in
PayrollLeaves == <<NewLeave("u1", "CL", 1, 2)>>

InitPayroll ==
  /\ leaves = PayrollLeaves
  /\ attendance_days = PayrollPunches
  /\ pc = [t \in Calls |-> "idle"]
  /\ req = [t \in Calls |-> NoReq]
  /\ leave = [t \in Calls |-> NoRow]
  /\ cur = [t \in Calls |-> 0]
  /\ txLeave = [t \in Calls |-> NoWrite]
  /\ txAtt = [t \in Calls |-> {}]
  /\ rowLock = [r \in LeaveIds |-> 0]
  /\ res = [t \in Calls |-> NoRes]
  /\ applyRes = NoRes
  /\ hrRes = NoHrRes
  /\ hrCalls = 0
  /\ ingest = NoIngest
  /\ client = [t \in Calls |-> NoClient]
  /\ readRes = NoReadRes

NextPayroll ==
  \/ \E in \in HrInputs : PayrollSummary(in[1], in[2])
  \/ \E in \in RefreshInputs : AttendanceRefresh(in[1], in[2])
  \/ \E t \in Calls, in \in PayrollDecideInputs :
       DecideStart(t, in[1], in[2], in[3])
  \/ \E t \in Calls : Connect(t)
  \/ \E t \in Calls : Begin(t)
  \/ \E t \in Calls : SelectForUpdate(t)
  \/ \E t \in Calls : RollbackNotFound(t)
  \/ \E t \in Calls : UpdateLeave(t)
  \/ \E t \in Calls : UpsertAttendance(t)
  \/ \E t \in Calls : Commit(t)
  \/ \E t \in Calls : Catch(t)

SpecPayroll == InitPayroll /\ [][NextPayroll]_vars

\* ------------------------------------------------- attendance ingestion
\* punches the ingestion upserts: <<employee, date, status>>
MaxPunches == 2
PunchInputs ==
  {<<"e1", d, st>> : d \in {1, 2}, st \in {"present", "absent"}}

\* Attendance Ledger.upsert(employee, date, status, source, validity) as
\* the ingestion calls it: one statement of its own on attendance_days,
\* which waits while an open transaction holds a write on the same key
Punch(e, d, status) ==
  /\ ingest.calls < MaxPunches
  /\ ~KeyLockedByOther(0, e, d)
  /\ attendance_days' = Upsert(attendance_days, PunchRow(e, d, status))
  /\ ingest' = [calls |-> ingest.calls + 1, employee_id |-> e, date |-> d,
                status |-> status]
  /\ UNCHANGED <<leaves, pc, req, leave, cur, txLeave, txAtt, rowLock, res,
                 applyRes, hrRes, hrCalls, client, readRes>>

\* the request of e1 for January 1st and 2nd is pending and January 1st
\* has its punch
InitIngest ==
  /\ leaves = PayrollLeaves
  /\ attendance_days = InitialPunches
  /\ pc = [t \in Calls |-> "idle"]
  /\ req = [t \in Calls |-> NoReq]
  /\ leave = [t \in Calls |-> NoRow]
  /\ cur = [t \in Calls |-> 0]
  /\ txLeave = [t \in Calls |-> NoWrite]
  /\ txAtt = [t \in Calls |-> {}]
  /\ rowLock = [r \in LeaveIds |-> 0]
  /\ res = [t \in Calls |-> NoRes]
  /\ applyRes = NoRes
  /\ hrRes = NoHrRes
  /\ hrCalls = 0
  /\ ingest = NoIngest
  /\ client = [t \in Calls |-> NoClient]
  /\ readRes = NoReadRes

NextIngest ==
  \/ \E in \in PunchInputs : Punch(in[1], in[2], in[3])
  \/ \E t \in Calls, in \in PayrollDecideInputs :
       DecideStart(t, in[1], in[2], in[3])
  \/ \E t \in Calls : Connect(t)
  \/ \E t \in Calls : Begin(t)
  \/ \E t \in Calls : SelectForUpdate(t)
  \/ \E t \in Calls : RollbackNotFound(t)
  \/ \E t \in Calls : UpdateLeave(t)
  \/ \E t \in Calls : UpsertAttendance(t)
  \/ \E t \in Calls : Commit(t)
  \/ \E t \in Calls : Catch(t)

SpecIngest == InitIngest /\ [][NextIngest]_vars

\* ------------------------------------------------- the read endpoints
\* LIMIT 60 and LIMIT 200
MyMaxRows == 60
TeamMaxRows == 200

ReadError(endpoint, user, code, msg) ==
  [endpoint |-> endpoint, user |-> user, code |-> code, error |-> msg,
   rows |-> <<>>]

\* res.json(rows)
ReadOk(endpoint, user, rows) ==
  [endpoint |-> endpoint, user |-> user, code |-> 200, error |-> "",
   rows |-> rows]

\* ORDER BY a.date DESC over rows of one employee, whose dates differ
SortByDateDesc(S) ==
  [i \in 1..Cardinality(S) |->
     CHOOSE a \in S : Cardinality({b \in S : b.date > a.date}) = i - 1]

\* LIMIT n; the first definition returns every row
NoLimit(rows, n) == rows
Limit(rows, n) == IF Len(rows) <= n THEN rows ELSE SubSeq(rows, 1, n)

\* FROM attendance_days a JOIN employees e ON a.employee_id = e.id
\* WHERE e.user_id=$1
RowsOfUser(user) ==
  {a \in attendance_days : a.employee_id = EmployeeOfUser(user)}

\* SELECT a.date, a.status, a.source, a.geofence_ok
MyRow(a) ==
  [date |-> a.date, status |-> a.status, source |-> a.source,
   geofence_ok |-> a.geofence_ok]

MyRows(user) ==
  LET sorted == SortByDateDesc(RowsOfUser(user))
  IN Limit([i \in DOMAIN sorted |-> MyRow(sorted[i])], MyMaxRows)

\* GET /api/attendance/my
AttendanceMy(user) ==
  /\ IF user = NoAuth
     THEN readRes' = ReadError("my", user, 401, "Missing Authorization")
     ELSE \/ readRes' = ReadOk("my", user, MyRows(user))
          \/ readRes' = ReadError("my", user, 500, "Failed to fetch attendance")
  /\ UNCHANGED <<leaves, attendance_days, pc, req, leave, cur, txLeave,
                 txAtt, rowLock, res, applyRes, hrRes, hrCalls, ingest,
                 client>>

\* users.name of a user is the user's id; the users in the order of their
\* names
NameOrder == <<"h1", "m1", "m2", "u1", "u2">>

\* SELECT u.name AS employee, a.date, a.status of one employee: the LEFT
\* JOIN gives an employee without attendance one row whose a.date and
\* a.status are null (joined is FALSE)
TeamRowsOf(e) ==
  LET S == {a \in attendance_days : a.employee_id = e}
      sorted == SortByDateDesc(S)
  IN IF S = {}
     THEN <<[employee |-> employees[e].user_id, joined |-> FALSE,
             date |-> 0, status |-> NULL]>>
     ELSE [i \in DOMAIN sorted |->
             [employee |-> employees[e].user_id, joined |-> TRUE,
              date |-> sorted[i].date, status |-> sorted[i].status]]

\* WHERE e.manager_id=$1 ORDER BY u.name, a.date DESC: the rows of the
\* manager's employees, employee after employee in the order of the names
RECURSIVE TeamRowsFrom(_, _)
TeamRowsFrom(user, i) ==
  IF i > Len(NameOrder) THEN <<>>
  ELSE LET es == {e \in DOMAIN employees :
                    /\ employees[e].user_id = NameOrder[i]
                    /\ employees[e].manager_id = user}
       IN (IF es = {} THEN <<>> ELSE TeamRowsOf(CHOOSE e \in es : TRUE))
            \o TeamRowsFrom(user, i + 1)

TeamRows(user) == Limit(TeamRowsFrom(user, 1), TeamMaxRows)

\* GET /api/attendance/team
AttendanceTeam(user) ==
  /\ IF user = NoAuth
     THEN readRes' = ReadError("team", user, 401, "Missing Authorization")
     ELSE IF "ATTENDANCE_APPROVE" \notin permissions[user]
     THEN readRes' = ReadError("team", user, 403, "Forbidden")
     ELSE \/ readRes' = ReadOk("team", user, TeamRows(user))
          \/ readRes' =
               ReadError("team", user, 500, "Failed to fetch team attendance")
  /\ UNCHANGED <<leaves, attendance_days, pc, req, leave, cur, txLeave,
                 txAtt, rowLock, res, applyRes, hrRes, hrCalls, ingest,
                 client>>

\* DATE_PART('day', (end_date - start_date)): start_date and end_date are
\* DATE columns, the difference of two dates is an integer, and DATE_PART
\* is defined for timestamps, dates, times and intervals; the statement is
\* accepted when the type of the argument is one DATE_PART takes
DateMinusDate == "integer"
DatePartTypes ==
  {"timestamp", "timestamptz", "date", "time", "timetz", "interval"}
BalanceQueryAccepted == DateMinusDate \in DatePartTypes

\* Object.entries(ALLOC).map(...): the rows in the order of ALLOC
AllocOrder == <<"CL", "SL", "PL">>
BalanceRows(user) ==
  [i \in DOMAIN AllocOrder |->
     [type |-> AllocOrder[i],
      allocated |-> Balance(user)[AllocOrder[i]].allocated,
      used |-> Balance(user)[AllocOrder[i]].used,
      remaining |-> Balance(user)[AllocOrder[i]].remaining]]

\* res.json(out), reached when pool.query has returned the rows
BalanceAnswered(user) ==
  /\ BalanceQueryAccepted
  /\ readRes' = ReadOk("balance", user, BalanceRows(user))

\* GET /api/leave/balance
LeaveBalance(user) ==
  /\ IF user = NoAuth
     THEN readRes' = ReadError("balance", user, 401, "Missing Authorization")
     ELSE \/ BalanceAnswered(user)
          \/ readRes' =
               ReadError("balance", user, 500, "Failed to fetch balances")
  /\ UNCHANGED <<leaves, attendance_days, pc, req, leave, cur, txLeave,
                 txAtt, rowLock, res, applyRes, hrRes, hrCalls, ingest,
                 client>>

\* a decided row of the leaves table
DecidedLeave(user, type, start_date, end_date, status) ==
  [NewLeave(user, type, start_date, end_date) EXCEPT
     !.status = status, !.approver_id = "m1"]

\* tables the read endpoints are called on: no request; the pending request
\* of e1; 14 approved days of CL (above the 12 allocated) and a rejected
\* request
ReadLeaves ==
  {<<>>,
   PayrollLeaves,
   <<DecidedLeave("u1", "CL", 1, 14, "approved"),
     DecidedLeave("u1", "SL", 20, 21, "rejected")>>}

\* no attendance; the punch of e1; the punches of three months, where e2
\* has more than 60 rows
ReadPunches == {{}, InitialPunches, PayrollPunches}

ReadUsers == Users \cup {NoAuth}

InitRead ==
  /\ leaves \in ReadLeaves
  /\ attendance_days \in ReadPunches
  /\ pc = [t \in Calls |-> "idle"]
  /\ req = [t \in Calls |-> NoReq]
  /\ leave = [t \in Calls |-> NoRow]
  /\ cur = [t \in Calls |-> 0]
  /\ txLeave = [t \in Calls |-> NoWrite]
  /\ txAtt = [t \in Calls |-> {}]
  /\ rowLock = [r \in LeaveIds |-> 0]
  /\ res = [t \in Calls |-> NoRes]
  /\ applyRes = NoRes
  /\ hrRes = NoHrRes
  /\ hrCalls = 0
  /\ ingest = NoIngest
  /\ client = [t \in Calls |-> NoClient]
  /\ readRes = NoReadRes

NextRead ==
  \/ \E user \in ReadUsers : AttendanceMy(user)
  \/ \E user \in ReadUsers : AttendanceTeam(user)
  \/ \E user \in ReadUsers : LeaveBalance(user)

SpecRead == InitRead /\ [][NextRead]_vars

\* ----------------------------------------------------------------- claims
Ids == 1..Len(leaves)
OnRequest(r) == {t \in Calls : req[t].id = r /\ pc[t] # "idle"}
Winners(r) == {t \in OnRequest(r) : res[t].code = 200}
TablesUnchanged ==
  leaves' = leaves /\ attendance_days' = attendance_days

\* C1: of the decide calls on one request, run in any interleaving and with
\* any decisions, at most one succeeds; the request is decided exactly when
\* one call has succeeded, its status and approver are that call's decision
\* and caller, and every other call on it that got the row's verdict was
\* answered 'Leave not found or already processed'.
C1_ExactlyOneDecideWins ==
  \A r \in Ids :
    /\ Cardinality(Winners(r)) <= 1
    /\ (leaves[r].status # "pending") <=> (Winners(r) # {})
    /\ \A t \in Winners(r) :
         /\ leaves[r].status = req[t].s
         /\ leaves[r].approver_id = req[t].user
         /\ \A o \in OnRequest(r) \ {t} :
              pc[o] = "done" => res[o].code # 200

\* the call that started first lost to the call that started second
C1_Witness ==
  \E t1, t2 \in Calls :
    /\ t1 < t2
    /\ req[t1].id = req[t2].id
    /\ req[t1].id \in Ids
    /\ req[t1].s # req[t2].s
    /\ pc[t1] = "done" /\ pc[t2] = "done"
    /\ res[t1] = NotFound
    /\ res[t2] = OkRes(req[t2].s)
    /\ leaves[req[t1].id].status = req[t2].s

\* the step is one of call t's transaction
StepOf(t) == pc'[t] # pc[t] \/ txAtt'[t] # txAtt[t]

\* C2: decide is all-or-nothing. The committed tables change only in the
\* step that commits a decide call, and that step stores the status, the
\* approver and, for an approval, the leave row of every date of the range
\* together; a call that fails (500, or no response because the ROLLBACK
\* threw) leaves the committed tables as they were, with its request still
\* pending and without approver.
C2_AllOrNothing ==
  [][\A t \in Calls :
       /\ (StepOf(t) /\ ~TablesUnchanged) =>
            /\ pc[t] = "commit" /\ res'[t] = OkRes(req[t].s)
            /\ leaves'[req[t].id].status = req[t].s
            /\ leaves'[req[t].id].approver_id = req[t].user
            /\ req[t].s = "approved" =>
                 \A d \in leave[t].start_date..leave[t].end_date :
                   LeaveRow(leave[t].employee_id, d) \in attendance_days'
       /\ (StepOf(t) /\ pc[t] = "catch") =>
            /\ TablesUnchanged
            /\ leave[t] # NoRow =>
                 /\ leaves'[req[t].id].status = "pending"
                 /\ leaves'[req[t].id].approver_id = NULL
       /\ (StepOf(t) /\ pc'[t] = "catch") => TablesUnchanged
    ]_vars

\* an approval failed after its UPDATE and was rolled back
C2_Witness ==
  \E t \in Calls :
    /\ pc[t] = "done"
    /\ req[t].s = "approved"
    /\ res[t] = ErrorRes(500, "Failed to update leave")
    /\ req[t].id \in Ids
    /\ leaves[req[t].id].status = "pending"
    /\ leaves[req[t].id].approver_id = NULL
    /\ attendance_days = InitialPunches

\* C3: the step that approves a pending request with start <= end leaves
\* exactly end - start + 1 attendance rows of the employee with dates in
\* [start, end], one per date, each with status 'leave' and geofence_ok.
RowsInRange(table, l) ==
  {a \in table :
     /\ a.employee_id = l.employee_id
     /\ a.date \in l.start_date..l.end_date}

C3_ApprovalBackfillsRange ==
  [][\A r \in Ids :
       (/\ leaves[r].status = "pending"
        /\ leaves'[r].status = "approved"
        /\ leaves[r].start_date <= leaves[r].end_date) =>
         /\ Cardinality(RowsInRange(attendance_days', leaves[r])) =
              leaves[r].end_date - leaves[r].start_date + 1
         /\ \A d \in leaves[r].start_date..leaves[r].end_date :
              \E a \in attendance_days' :
                a.employee_id = leaves[r].employee_id /\ a.date = d
         /\ \A a \in RowsInRange(attendance_days', leaves[r]) :
              a.status = "leave" /\ a.geofence_ok
    ]_vars

\* a two-day request over a date with a punch record is approved
C3_Witness ==
  \E r \in Ids :
    /\ leaves[r].status = "approved"
    /\ leaves[r].start_date < leaves[r].end_date
    /\ RowsInRange(attendance_days, leaves[r]) =
         {LeaveRow(leaves[r].employee_id, d) :
            d \in leaves[r].start_date..leaves[r].end_date}
    /\ \E a \in InitialPunches :
         a.employee_id = leaves[r].employee_id
         /\ a.date \in leaves[r].start_date..leaves[r].end_date

\* C4: a step that approves a pending request of type c of employee e raises
\* the 'used' figure the balance query reports for (e, c) by exactly
\* end - start + 1.
UserOf(e) == employees[e].user_id

C4_UsedGrowsByDayCount ==
  [][\A r \in Ids :
       (leaves[r].status = "pending" /\ leaves'[r].status = "approved") =>
         /\ leaves[r].type \in DOMAIN ALLOC
         /\ Used(UserOf(leaves[r].employee_id), leaves[r].type)' =
              Used(UserOf(leaves[r].employee_id), leaves[r].type)
              + (leaves[r].end_date - leaves[r].start_date + 1)
    ]_vars

\* C5: a decide call that reaches its SELECT when the request is already
\* decided never gets the row: it goes on to the 'not found or already
\* processed' answer (or to the failure path), and none of its steps changes
\* a leave request, an attendance row or, with them, a balance.
Decided(r) == r \in Ids /\ leaves[r].status # "pending"

C5_RetryChangesNothing ==
  [][\A t \in Calls :
       /\ (StepOf(t) /\ pc[t] = "select" /\ Decided(req[t].id)) =>
            /\ pc'[t] \in {"rollback_nf", "catch"}
            /\ leave'[t] = NoRow
            /\ TablesUnchanged
       /\ (StepOf(t) /\ pc[t] = "rollback_nf") =>
            /\ TablesUnchanged
            /\ res'[t] = NotFound \/ pc'[t] = "catch"
       /\ (StepOf(t) /\ leave[t] = NoRow) =>
            /\ TablesUnchanged
            /\ res'[t] # OkRes(req[t].s)
    ]_vars

\* the same decision is sent again after it has been applied
C5_Witness ==
  \E t1, t2 \in Calls :
    /\ t1 # t2
    /\ req[t1] = req[t2]
    /\ Decided(req[t1].id)
    /\ res[t1] = OkRes(req[t1].s)
    /\ res[t2] = NotFound
    /\ pc[t1] = "done" /\ pc[t2] = "done"

C7_OneRowPerEmployeeDate ==
  /\ \A a, b \in attendance_days : SameKey(a, b) => a = b
  /\ \A t1, t2 \in Calls :
       t1 # t2 => \A a \in txAtt[t1], b \in txAtt[t2] : ~SameKey(a, b)
  /\ \A t \in Calls : \A a, b \in txAtt[t] : SameKey(a, b) => a = b

\* two approved requests of one employee overlap on a date, and a date with
\* a punch record was overwritten
C7_Witness ==
  \E r1, r2 \in Ids :
    /\ r1 # r2
    /\ leaves[r1].status = "approved" /\ leaves[r2].status = "approved"
    /\ leaves[r1].employee_id = leaves[r2].employee_id
    /\ (leaves[r1].start_date..leaves[r1].end_date)
         \cap (leaves[r2].start_date..leaves[r2].end_date) # {}
    /\ \E a \in InitialPunches :
         /\ a \notin attendance_days
         /\ LeaveRow(a.employee_id, a.date) \in attendance_days

\* C8: a decide call succeeds only on a request that is in the caller's
\* pending list, that is, only for the manager of the request's employee.
C8_OnlyTheManagerDecides ==
  [][\A t \in Calls :
       (res'[t].code = 200 /\ res[t].code # 200) =>
         req[t].id \in Pending(req[t].user)
    ]_vars

\* C9: every stored leave request has end_date >= start_date.
C9_EndNotBeforeStart ==
  \A r \in Ids : leaves[r].end_date >= leaves[r].start_date

\* C10: every stored leave request belongs to an employee whose profile is
\* active.
C10_OnlyActiveEmployeesApply ==
  \A r \in Ids : employees[leaves[r].employee_id].status = "active"

\* C11: a submit whose category is not a recognized leave type is refused
\* and stores nothing, so every stored leave request has a type for which
\* the balance query reports a row.
C11_OnlyRecognizedCategories ==
  \A r \in Ids : leaves[r].type \in DOMAIN Balance(UserOf(leaves[r].employee_id))

\* C12: a successful submit appends exactly one request, pending and with
\* no approver, answers with its id, and leaves every attendance row, every
\* 'used' figure and every other leave request as it was.
C12_SubmitCreatesOnePending ==
  [][(applyRes' # applyRes /\ applyRes'.code = 200) =>
       /\ Len(leaves') = Len(leaves) + 1
       /\ applyRes'.request_id = Len(leaves')
       /\ applyRes'.status = "pending"
       /\ leaves'[Len(leaves')].status = "pending"
       /\ leaves'[Len(leaves')].approver_id = NULL
       /\ \A r \in Ids : leaves'[r] = leaves[r]
       /\ attendance_days' = attendance_days
       /\ \A u \in Users : Balance(u)' = Balance(u)
    ]_vars

\* a second request was submitted after the first one had been approved
\* and back-filled
C12_Witness ==
  /\ Len(leaves) = 2
  /\ applyRes.code = 200 /\ applyRes.request_id = 2
  /\ leaves[2].status = "pending"
  /\ leaves[1].status = "approved"
  /\ Used("u1", "CL") > 0
  /\ \E a \in attendance_days : a.status = "leave"

\* C13: a decide call answers an id that names no request exactly as it
\* answers an already decided one, whatever id the caller supplies: when
\* its SELECT finds no pending row for the id, the 'not found or already
\* processed' path is the one the call can take.
C13_UnknownLikeDecided ==
  \A t \in Calls :
    (pc[t] = "select" /\ ~MatchesPending(req[t].id)) =>
      ENABLED SelectNoRows(t)

\* C14: over any sequence of decide calls the 'used' figure of every
\* (employee, type) never decreases; it grows only in the step in which a
\* decide call with status 'approved' succeeds on a request of that
\* employee and type; a rejecting or failing decide step leaves it as it was.
C14_UsedGrowsOnlyOnApproval ==
  [][\A e \in DOMAIN employees, type \in DOMAIN ALLOC :
       \* the balance query reads the leaves table only
       leaves' # leaves =>
       LET before == Used(UserOf(e), type)
           after == Used(UserOf(e), type)'
       IN /\ after >= before
          /\ after > before =>
               \E t \in Calls :
                 /\ pc[t] = "commit" /\ res'[t] = OkRes("approved")
                 /\ leaves[req[t].id].employee_id = e
                 /\ leaves[req[t].id].type = type
          /\ \A t \in Calls :
               (StepOf(t) /\ res'[t] # OkRes("approved")) => after = before
    ]_vars

\* one request of u1 was approved and counts, another one was rejected
C14_Witness ==
  /\ Used("u1", "CL") > 0
  /\ \E t1, t2 \in Calls :
       /\ res[t1] = OkRes("approved") /\ res[t2] = OkRes("rejected")
       /\ req[t2].id \in Ids
       /\ leaves[req[t2].id].status = "rejected"
       /\ leaves[req[t2].id].employee_id = "e1"
       /\ leaves[req[t2].id].type = "CL"

\* a call of GET /api/hr/payroll-summary is answered with its rows
SummaryAnswered ==
  /\ hrCalls' # hrCalls
  /\ hrRes'.endpoint = "payroll-summary" /\ hrRes'.code = 200

\* round(num / den) to the nearest whole number, a half goes up
RoundHalfUp(num, den) == (2 * num + den) \div (2 * den)

\* C15: the payable amount of every row of the payroll summary is
\* round(base * max(0, presents + leaves) / 26), rounded half-up and never
\* clamped to the base.
C15_PayableIsRoundedHalfUp ==
  (hrRes.endpoint = "payroll-summary" /\ hrRes.code = 200) =>
    \A r \in hrRes.rows :
      r.payable_salary =
        RoundHalfUp(r.base_salary * Max(0, r.presents + r.leaves), 26)

\* C16: every attendance row of an employee dated in [month start, next
\* month start) is counted in exactly one of presents, leaves and absents,
\* whatever its status, and rows outside the interval in none: the three
\* counts add up to the number of rows in the interval.
C16_EveryRowInOneBucket ==
  [][SummaryAnswered =>
       \A e \in DOMAIN employees :
         \E r \in hrRes'.rows :
           /\ r.employee = UserOf(e)
           /\ r.presents + r.leaves + r.absents =
                Cardinality({a \in attendance_days :
                   /\ a.employee_id = e
                   /\ a.date >= toMonthBounds(hrRes'.month).start
                   /\ a.date < toMonthBounds(hrRes'.month).end})
    ]_vars

\* C17: the base salary of a row is that of the employee's compensation
\* record with the latest effective date among those effective on or
\* before the first day of the month; later records are ignored, and with
\* no such record the base and the payable amount are 0.
C17_LatestCtcAsOfMonthStart ==
  (hrRes.endpoint = "payroll-summary" /\ hrRes.code = 200) =>
    \A r \in hrRes.rows :
      LET q == {c \in ctc_structures :
                  /\ c.employee_id = EmployeeOfUser(r.employee)
                  /\ c.effective_from <= toMonthBounds(hrRes.month).start}
      IN IF q = {} THEN r.base_salary = 0 /\ r.payable_salary = 0
         ELSE \E c \in q :
                /\ \A o \in q : o.effective_from <= c.effective_from
                /\ r.base_salary = c.basic + c.hra + c.special

\* the summary of January: e1's only record starts later in the month, e2
\* has an older record and the one of January 1st
C17_Witness ==
  /\ hrRes.endpoint = "payroll-summary" /\ hrRes.code = 200
  /\ hrRes.month = <<0, 1>>
  /\ \E r \in hrRes.rows :
       r.employee = "u1" /\ r.base_salary = 0 /\ r.payable_salary = 0
  /\ \E r \in hrRes.rows : r.employee = "u2" /\ r.base_salary = 30000

C19_NoTornSummary ==
  [][/\ SummaryAnswered => hrRes'.rows = PayrollRows(hrRes'.month)
     /\ attendance_days' # attendance_days =>
          \E t \in Calls :
            /\ pc[t] = "commit" /\ res'[t] = OkRes("approved")
            /\ \A d \in leave[t].start_date..leave[t].end_date :
                 LeaveRow(leave[t].employee_id, d) \in attendance_days'
            /\ \A a \in attendance_days :
                 a \in attendance_days'
                 \/ /\ a.employee_id = leave[t].employee_id
                    /\ a.date \in leave[t].start_date..leave[t].end_date
    ]_vars

\* a summary of January answered with no leave day for e1 while the
\* approving call has written one of the two rows of the range
C19_Witness ==
  /\ hrRes.endpoint = "payroll-summary" /\ hrRes.code = 200
  /\ hrRes.month = <<0, 1>>
  /\ \E r \in hrRes.rows : r.employee = "u1" /\ r.leaves = 0
  /\ \E t \in Calls :
       /\ pc[t] = "upsert" /\ req[t].s = "approved"
       /\ Cardinality(txAtt[t]) = 1
       /\ Cardinality(Remaining(t)) = 1

\* rows of the attendance table with the key (e, d)
RowsOfKey(table, e, d) == {a \in table : a.employee_id = e /\ a.date = d}

\* C20: on a key written by the ingestion and by a leave approval, in any
\* interleaving, the row is that of the write that completed last: a punch
\* leaves exactly one row with its status, an approving commit leaves
\* exactly one 'leave' row per date of its range, either write leaves every
\* other key alone, and no other step changes the table.
C20_LastWriteWins ==
  [][/\ ingest' # ingest =>
          /\ RowsOfKey(attendance_days', ingest'.employee_id, ingest'.date)
               = {PunchRow(ingest'.employee_id, ingest'.date, ingest'.status)}
          /\ \A a \in attendance_days \cup attendance_days' :
               (a.employee_id # ingest'.employee_id \/ a.date # ingest'.date)
                 => (a \in attendance_days <=> a \in attendance_days')
     /\ \A t \in Calls :
          (pc[t] = "commit" /\ res'[t] = OkRes("approved")) =>
            /\ \A d \in leave[t].start_date..leave[t].end_date :
                 RowsOfKey(attendance_days', leave[t].employee_id, d)
                   = {LeaveRow(leave[t].employee_id, d)}
            /\ \A a \in attendance_days \cup attendance_days' :
                 (a.employee_id # leave[t].employee_id
                  \/ a.date \notin leave[t].start_date..leave[t].end_date)
                   => (a \in attendance_days <=> a \in attendance_days')
     /\ attendance_days' # attendance_days =>
          \/ ingest' # ingest
          \/ \E t \in Calls : pc[t] = "commit" /\ res'[t] = OkRes("approved")
    ]_vars

\* the approval overwrote the punch of January 1st, and a punch that came
\* after the approval overwrote the leave row of January 2nd
C20_Witness ==
  /\ leaves[1].status = "approved"
  /\ ingest.calls = MaxPunches /\ ingest.date = 2
  /\ RowsOfKey(attendance_days, "e1", 2)
       = {PunchRow("e1", 2, ingest.status)}
  /\ RowsOfKey(attendance_days, "e1", 1) = {LeaveRow("e1", 1)}

\* C21: the attendance upsert is idempotent. Writing a row a second time
\* leaves the table as the first write left it, and the step that approves a
\* request whose employee and date range are those of an already approved
\* request leaves the committed attendance rows exactly as they were.
SameRange(l1, l2) ==
  /\ l1.employee_id = l2.employee_id
  /\ l1.start_date = l2.start_date
  /\ l1.end_date = l2.end_date

C25_EveryCallAnswered ==
  \A t \in Calls : pc[t] = "done" => res[t] # NoRes

\* C26: a request carries an approver exactly when its status is approved
\* or rejected, and the step that decides a request stores as approver the
\* caller of the decide call that is answered with success in that step.
C26_ApproverIffDecided ==
  [][/\ \A r \in Ids :
          (leaves[r].approver_id # NULL) <=>
            (leaves[r].status \in {"approved", "rejected"})
     /\ \A r \in 1..Len(leaves') :
          (leaves'[r].approver_id # NULL) <=>
            (leaves'[r].status \in {"approved", "rejected"})
     /\ \A r \in Ids :
          leaves'[r].approver_id # leaves[r].approver_id =>
            \E t \in Calls :
              /\ pc[t] = "commit" /\ pc'[t] = "done"
              /\ req[t].id = r
              /\ res'[t] = OkRes(req[t].s)
              /\ leaves'[r].approver_id = req[t].user
              /\ req[t].user \in Users
    ]_vars

\* one request was rejected and one approved, each by a successful call of
\* m1, and each carries m1 as its approver
C26_Witness ==
  /\ Len(leaves) = 2
  /\ leaves[1].status = "rejected" /\ leaves[1].approver_id = "m1"
  /\ leaves[2].status = "approved" /\ leaves[2].approver_id = "m1"
  /\ \A t \in Calls : pc[t] = "done" /\ res[t].code = 200

\* C28: with no writer other than the decide calls, the number of attendance
\* rows of an employee with status 'leave' equals the sum, over the
\* categories of the balance, of the 'used' figures the balance query
\* reports for that employee.
LeaveRowsOf(e) ==
  {a \in attendance_days : a.employee_id = e /\ a.status = "leave"}

C28_LeaveRowsEqualUsed ==
  \A e \in DOMAIN employees :
    Cardinality(LeaveRowsOf(e)) =
      Used(employees[e].user_id, "CL") + Used(employees[e].user_id, "SL")
        + Used(employees[e].user_id, "PL")

\* C27: decide calls on different requests proceed independently, requests
\* of one employee with overlapping ranges included. A call waits for a
\* leaves row only behind a call on the same request, the calls waiting for
\* each other's attendance keys never form a cycle (no deadlock: in every
\* set of calls one is not waiting for a member of the set), and a call on
\* an existing request is sent to the 'not found or already processed'
\* answer only when another call on that same request has succeeded.
WaitsFor(t, o) ==
  /\ o # t
  /\ \/ /\ pc[t] = "select"
        /\ IsUuid(req[t].id)
        /\ MatchesPending(req[t].id)
        /\ rowLock[req[t].id] = o
     \/ /\ pc[t] = "upsert"
        /\ Remaining(t) # {}
        /\ \E r \in txAtt[o] :
             r.employee_id = leave[t].employee_id /\ r.date = NextDate(t)

C27_DifferentRequestsIndependent ==
  [][/\ \A S \in SUBSET Calls :
          S # {} => \E t \in S : \A o \in S : ~WaitsFor(t, o)
     /\ \A t, o \in Calls :
          (pc[t] = "select" /\ WaitsFor(t, o)) => req[o].id = req[t].id
     /\ \A t \in Calls :
          (pc[t] = "select" /\ pc'[t] = "rollback_nf" /\ req[t].id \in Ids) =>
            \E o \in Calls \ {t} : req[o].id = req[t].id /\ res[o].code = 200
    ]_vars

\* two approvals of different requests of one employee, both for days 1..2:
\* the second waits for the first date, which the first call has written,
\* and the first call goes on
C27_Witness ==
  \E t, o \in Calls :
    /\ req[t].id # req[o].id
    /\ pc[t] = "upsert" /\ pc[o] = "upsert"
    /\ leave[t].start_date = 1 /\ leave[t].end_date = 2
    /\ leave[o] = leave[t]
    /\ WaitsFor(t, o)
    /\ ~WaitsFor(o, t)
    /\ cur[o] = 2

\* C30: a decide call of a permitted caller whose decision, lowercased, is
\* neither 'approved' nor 'rejected' (a missing decision included) is
\* answered 400 in its first step, before any transaction, and changes
\* nothing; the status a request stores is always one of pending, approved
\* and rejected, in lowercase.
C30_OnlyApprovedOrRejected ==
  [][/\ \A r \in Ids : leaves[r].status \in {"pending", "approved", "rejected"}
     /\ \A r \in 1..Len(leaves') :
          leaves'[r].status \in {"pending", "approved", "rejected"}
     /\ \A t \in Calls :
          (/\ pc[t] = "idle" /\ pc'[t] # "idle"
           /\ req'[t].user \in Users
           /\ "LEAVE_APPROVE" \in permissions[req'[t].user]
           /\ req'[t].s \notin {"approved", "rejected"}) =>
            /\ pc'[t] = "done"
            /\ res'[t] = ErrorRes(400, "status must be approved or rejected")
            /\ TablesUnchanged
            /\ UNCHANGED <<txLeave, txAtt, rowLock, leave>>
     /\ \A t \in Calls :
          pc'[t] \notin {"idle", "done"} => req'[t].s \in {"approved", "rejected"}
    ]_vars

\* a call without a decision and a call with the decision 'cancelled' were
\* both refused, and the request they named is still pending
C30_Witness ==
  /\ Len(leaves) >= 1
  /\ leaves[1].status = "pending" /\ leaves[1].approver_id = NULL
  /\ \E t, o \in Calls :
       /\ req[t] = [user |-> "m1", id |-> 1, s |-> ""]
       /\ req[o] = [user |-> "m1", id |-> 1, s |-> "cancelled"]
       /\ pc[t] = "done" /\ pc[o] = "done"
       /\ res[t] = ErrorRes(400, "status must be approved or rejected")
       /\ res[o] = res[t]

\* C29: every decide call that got a pool client gives it back exactly once
\* on every path out of the handler, and never with its transaction open: a
\* call inside its transaction holds its client, a call that has released it
\* holds no lock and no uncommitted write, and once every call has returned
\* no row is locked and the pool, which hands out at most PoolMax clients,
\* has all of them back.
PoolMax == 10
Held(t) == client[t].acquired - client[t].released
InTransaction(t) ==
  pc[t] \in {"begin", "select", "rollback_nf", "update", "upsert", "commit",
             "catch"}

C29_ClientReleasedOnce ==
  /\ \A t \in Calls :
       /\ client[t].acquired \in {0, 1}
       /\ client[t].released <= client[t].acquired
       /\ InTransaction(t) <=> Held(t) = 1
       /\ pc[t] = "done" => client[t].released = client[t].acquired
       /\ Held(t) = 0 =>
            /\ txLeave[t] = NoWrite /\ txAtt[t] = {}
            /\ \A r \in LeaveIds : rowLock[r] # t
  /\ Cardinality({t \in Calls : Held(t) = 1}) <= PoolMax
  /\ (\A t \in Calls : pc[t] = "done") =>
       /\ \A r \in LeaveIds : rowLock[r] = 0
       /\ \A t \in Calls : Held(t) = 0

\* both calls have returned, one after its COMMIT and one after the
\* ROLLBACK of its catch block, and each has released the client it got
C29_Witness ==
  \E t, o \in Calls :
    /\ pc[t] = "done" /\ pc[o] = "done"
    /\ res[t].code = 200
    /\ res[o] = ErrorRes(500, "Failed to update leave")
    /\ client[t] = [acquired |-> 1, released |-> 1]
    /\ client[o] = client[t]
    /\ \A r \in LeaveIds : rowLock[r] = 0

\* C22: a successful answer of GET /api/attendance/my consists of attendance
\* rows of the caller's own employee only, each stored row at most once, in
\* strictly descending order of date, never more than MyMaxRows of them
\* however many are stored, and they are the most recent ones: every stored
\* row of the caller that is missing is older than every row returned.
MyAnswered == readRes.endpoint = "my" /\ readRes.code = 200

C22_MyRowsOwnRecentFirst ==
  MyAnswered =>
    LET rows == readRes.rows
        own == RowsOfUser(readRes.user)
    IN /\ Len(rows) <= MyMaxRows
       /\ Len(rows) = IF Cardinality(own) <= MyMaxRows
                      THEN Cardinality(own) ELSE MyMaxRows
       /\ \A i \in DOMAIN rows : \E a \in own : MyRow(a) = rows[i]
       /\ \A i, j \in DOMAIN rows : i < j => rows[i].date > rows[j].date
       /\ \A a \in own :
            (\A i \in DOMAIN rows : rows[i] # MyRow(a)) =>
              \A i \in DOMAIN rows : a.date < rows[i].date

\* u2 has more than 60 rows stored and is answered with the 60 most recent
\* ones, while the table holds rows of e1 too
C22_Witness ==
  /\ MyAnswered
  /\ readRes.user = "u2"
  /\ Cardinality(RowsOfUser("u2")) > MyMaxRows
  /\ Len(readRes.rows) = MyMaxRows
  /\ \E a \in attendance_days : a.employee_id = "e1"

\* C23: a successful answer of GET /api/attendance/team has the semantics of
\* the employee listing over the employees the caller manages: it holds
\* attendance records only, at most the maximum row count of them, and they
\* come most-recent-first by date.
TeamAnswered == readRes.endpoint = "team" /\ readRes.code = 200

C23_TeamRowsRecentFirst ==
  TeamAnswered =>
    LET rows == readRes.rows
    IN /\ Len(rows) <= TeamMaxRows
       /\ \A i \in DOMAIN rows :
            /\ rows[i].joined
            /\ \E a \in attendance_days :
                 /\ employees[a.employee_id].manager_id = readRes.user
                 /\ a.date = rows[i].date /\ a.status = rows[i].status
       /\ \A i, j \in DOMAIN rows : i < j => rows[i].date >= rows[j].date

\* C24: the balance query succeeds for every authenticated caller, also when
\* the approved days exceed the allocation, and its answer gives for each
\* category allocated, used and remaining with remaining = allocated - used,
\* negative values included.
BalanceReported == readRes.endpoint = "balance" /\ readRes.code = 200

C24_BalanceSucceedsUnclamped ==
  /\ \A user \in Users : ENABLED BalanceAnswered(user)
  /\ BalanceReported =>
       \A i \in DOMAIN readRes.rows :
         /\ readRes.rows[i].allocated = ALLOC[readRes.rows[i].type]
         /\ readRes.rows[i].used = Used(readRes.user, readRes.rows[i].type)
         /\ readRes.rows[i].remaining =
              readRes.rows[i].allocated - readRes.rows[i].used

====
